---------------------------- MODULE Spec2Model ----------------------------
(***************************************************************************)
(* A model of utils.py (robust_parse_dates, compute_sma, compute_insights) *)
(* and of the budget goal tracker of app.py.                               *)
(*                                                                         *)
(* Every function is a straight-line program; each of its statements is    *)
(* one action, pc is the statement about to run, and Init draws the        *)
(* function's arguments from bounded sets.  There is one specification per *)
(* function: SpecDates, SpecSma, SpecInsights and SpecApp.                  *)
(***************************************************************************)
EXTENDS Integers, Sequences, FiniteSets, TLC

VARIABLES
    pc,         \* the statement about to run
    series,     \* robust_parse_dates: the argument
    s,          \* robust_parse_dates: the cleaned text series
    parsed,     \* robust_parse_dates: the running best parse / return value
    callerDf,   \* compute_sma: the caller's table object
    df,         \* compute_sma: the local table
    aliased,    \* compute_sma: df is the caller's object, not a copy
    windows,    \* compute_sma: <<sma_short, sma_long>>
    stock_df,   \* compute_insights: the argument
    d,          \* compute_insights: the sorted copy
    loc,        \* compute_insights: the locals computed so far
    outcome,    \* compute_insights: what the call ends in
    upload,     \* app.py: the uploaded file (None, or its table)
    adf,        \* app.py: df
    totals,     \* app.py: total_income, total_expense, savings
    goal,       \* app.py: the number_input value
    ui          \* app.py: what has been drawn

vars == <<pc, series, s, parsed, callerDf, df, aliased, windows,
          stock_df, d, loc, outcome, upload, adf, totals, goal, ui>>

datesVars == <<series, s, parsed>>
smaVars == <<callerDf, df, aliased, windows>>
insightVars == <<stock_df, d, loc, outcome>>
appVars == <<upload, adf, totals, goal, ui>>

(***************************************************************************)
(* Bounds of the model.                                                    *)
(***************************************************************************)
MaxLen == 3        \* longest date series
MaxRows == 3       \* most rows of a compute_sma table
MaxStockRows == 2  \* most rows of a compute_insights table
MaxTxns == 2       \* most rows of an uploaded finance table

(***************************************************************************)
(* Helpers.                                                                *)
(***************************************************************************)
SeqsUpTo(S, n) == UNION {[1..k -> S] : k \in 0..n}

RECURSIVE SumSeq(_)
SumSeq(q) == IF q = << >> THEN 0 ELSE Head(q) + SumSeq(Tail(q))

RECURSIVE GCD(_, _)
GCD(a, b) == IF b = 0 THEN a ELSE GCD(b, a % b)

Abs(x) == IF x < 0 THEN -x ELSE x

\* The rational n/d (d > 0) in lowest terms: the value of a float quotient,
\* rounding aside.
Frac(n, dd) ==
    LET g == GCD(Abs(n), dd)
    IN  [num |-> n \div g, den |-> dd \div g]

(***************************************************************************)
(* Floats.  A float is a rational in lowest terms, +inf or NaN; rounding   *)
(* is left out.                                                            *)
(***************************************************************************)
NaN == [kind |-> "nan", num |-> 0, den |-> 1]

Inf == [kind |-> "inf", num |-> 1, den |-> 0]

Num(n, dd) == [kind |-> "num", num |-> Frac(n, dd).num, den |-> Frac(n, dd).den]

IsNaN(x) == x.kind = "nan"

\* x > y in IEEE arithmetic: False as soon as either side is NaN.
FloatGt(x, y) ==
    /\ ~IsNaN(x) /\ ~IsNaN(y)
    /\ IF x.kind = "inf" THEN y.kind # "inf"
       ELSE y.kind # "inf" /\ x.num * y.den > y.num * x.den

FloatLt(x, y) == FloatGt(y, x)

(***************************************************************************)
(* The values the variables of a function hold before it has run.         *)
(***************************************************************************)
NoLocals == [last_close |-> 0]

Running == [kind |-> "running"]

None == [file |-> FALSE, has_required_cols |-> FALSE, rows |-> << >>]

NoTotals == [total_income |-> 0, total_expense |-> 0, savings |-> 0]

BlankUi == [shown |-> "nothing", bar |-> NaN, message |-> "none"]

(***************************************************************************)
(* robust_parse_dates (utils.py 19-54).                                    *)
(*                                                                         *)
(* A raw value is one of a few classes of cell.  pandas' to_datetime and   *)
(* to_numeric are library calls; the model fixes, per class, whether each  *)
(* call yields a value:                                                    *)
(*   "NULL"        a missing cell (None / NaN)                             *)
(*   "N/A"         a placeholder string                                    *)
(*   "iso"         an unambiguous date, e.g. 2025-10-01                    *)
(*   "ambiguous"   e.g. 01/02/2025: month-first and day-first both parse,  *)
(*                 to different timestamps                                 *)
(*   "monthfirst"  a date only the month-first reading parses              *)
(*   "dayfirst"    a date only the day-first reading parses                *)
(*   "slashed"     a date that parses only once "/" is replaced by "-"     *)
(*   "5e8", "1.7e9", "5e10", "1.7e12"   numbers of that magnitude          *)
(***************************************************************************)
NaT == [valid |-> FALSE, of |-> "", reading |-> ""]

Ts(v, r) == [valid |-> TRUE, of |-> v, reading |-> r]

NumericValues == {"5e8", "1.7e9", "5e10", "1.7e12"}

RawValues == {"NULL", "N/A", "iso", "ambiguous", "monthfirst", "dayfirst",
              "slashed"} \cup NumericValues

\* s.fillna("").astype(str).str.strip(), then the placeholder replacement.
Clean(v) == IF v \in {"NULL", "N/A"} THEN "" ELSE v

\* s.str.replace("/", "-", regex=False) on one cell.
ReplaceSlashes(t) == IF t = "slashed" THEN "dashed" ELSE t

\* pd.to_datetime(..., errors="coerce", dayfirst=...) on one text cell.
ToDatetime(t, dayfirst) ==
    CASE t \in {"iso", "dashed"} -> Ts(t, "ymd")
      [] t = "ambiguous" -> Ts(t, IF dayfirst THEN "dmy" ELSE "mdy")
      [] t = "monthfirst" -> IF dayfirst THEN NaT ELSE Ts(t, "mdy")
      [] t = "dayfirst" -> IF dayfirst THEN Ts(t, "dmy") ELSE NaT
      [] OTHER -> NaT

ToDatetimeSeries(q, dayfirst) == [i \in DOMAIN q |-> ToDatetime(q[i], dayfirst)]

\* parsed.notna().sum()
NotNaCount(q) == Cardinality({i \in DOMAIN q : q[i].valid})

\* pd.to_numeric(series, errors="coerce"): is the cell a number, and which,
\* in units of 10^8.
IsNumeric(v) == v \in NumericValues

NumVal(v) ==
    CASE v = "5e8" -> 5
      [] v = "1.7e9" -> 17
      [] v = "5e10" -> 500
      [] v = "1.7e12" -> 17000

E9 == 10
E12 == 10000

\* numeric.max(skipna=True), over a series with at least one number.
NumericMax(q) ==
    LET S == {NumVal(q[i]) : i \in {j \in DOMAIN q : IsNumeric(q[j])}}
    IN  CHOOSE m \in S : \A x \in S : x <= m

\* pd.to_datetime(numeric, unit=..., errors="coerce") on one cell: NaT for NaN
\* and for an instant past Timestamp.max (9.22e9 s, 9.22e12 ms).
EpochToDatetime(v, unit) ==
    IF ~IsNumeric(v) THEN NaT
    ELSE IF unit = "ms"
         THEN (IF NumVal(v) <= 92233 THEN Ts(v, "epoch_ms") ELSE NaT)
         ELSE (IF NumVal(v) <= 92 THEN Ts(v, "epoch_s") ELSE NaT)

\* parsed.fillna(parsed_epoch)
FillNa(p, q) == [i \in DOMAIN p |-> IF p[i].valid THEN p[i] ELSE q[i]]

\* line 28: parsed.notna().sum() >= len(s) * 0.6
MeetsThreshold(p, q) == NotNaCount(p) * 10 >= Len(q) * 6

\* A variant of the comparison below that also replaces on a tie.
BetterOrEqual(p2, p) == NotNaCount(p2) >= NotNaCount(p)

\* lines 33 and 39: parsed2.notna().sum() > parsed.notna().sum()
StrictlyBetter(p2, p) == NotNaCount(p2) > NotNaCount(p)

\* A variant of the epoch fill below that never looks for milliseconds.
EpochFillSecondsOnly(p, raw) ==
    IF \E i \in DOMAIN raw : IsNumeric(raw[i])
    THEN IF NumericMax(raw) > E9
         THEN FillNa(p, [i \in DOMAIN raw |-> EpochToDatetime(raw[i], "s")])
         ELSE p
    ELSE p

\* lines 43-52: the epoch fill of the running best
EpochFill(p, raw) ==
    IF \E i \in DOMAIN raw : IsNumeric(raw[i])
    THEN LET maxv == NumericMax(raw)
         IN  IF maxv > E12
             THEN FillNa(p, [i \in DOMAIN raw |-> EpochToDatetime(raw[i], "ms")])
             ELSE IF maxv > E9
                  THEN FillNa(p, [i \in DOMAIN raw |-> EpochToDatetime(raw[i], "s")])
                  ELSE p
    ELSE p

InitDates ==
    /\ pc = "clean"
    /\ series \in SeqsUpTo(RawValues, MaxLen)
    /\ s = << >>
    /\ parsed = << >>
    /\ callerDf = << >> /\ df = << >> /\ aliased = FALSE /\ windows = <<50, 200>>
    /\ stock_df = [cols |-> {}, rows |-> << >>] /\ d = << >>
    /\ loc = NoLocals /\ outcome = Running
    /\ upload = None /\ adf = << >> /\ totals = NoTotals /\ goal = 0 /\ ui = BlankUi

\* lines 21-24
CleanSeries ==
    /\ pc = "clean"
    /\ s' = [i \in DOMAIN series |-> Clean(series[i])]
    /\ pc' = "tryA"
    /\ UNCHANGED <<series, parsed, smaVars, insightVars, appVars>>

\* lines 27-29
TryDefault ==
    /\ pc = "tryA"
    /\ parsed' = ToDatetimeSeries(s, FALSE)
    /\ pc' = IF MeetsThreshold(parsed', s) THEN "return29" ELSE "tryB"
    /\ UNCHANGED <<series, s, smaVars, insightVars, appVars>>

\* lines 32-34
TryDayfirst ==
    /\ pc = "tryB"
    /\ LET parsed2 == ToDatetimeSeries(s, TRUE)
       IN  parsed' = IF StrictlyBetter(parsed2, parsed) THEN parsed2 ELSE parsed
    /\ pc' = "tryC"
    /\ UNCHANGED <<series, s, smaVars, insightVars, appVars>>

\* lines 37-40
TrySlashes ==
    /\ pc = "tryC"
    /\ LET s2 == [i \in DOMAIN s |-> ReplaceSlashes(s[i])]
           parsed3 == ToDatetimeSeries(s2, FALSE)
       IN  parsed' = IF StrictlyBetter(parsed3, parsed) THEN parsed3 ELSE parsed
    /\ pc' = "epoch"
    /\ UNCHANGED <<series, s, smaVars, insightVars, appVars>>

\* lines 43-54
TryEpoch ==
    /\ pc = "epoch"
    /\ parsed' = EpochFill(parsed, series)
    /\ pc' = "return54"
    /\ UNCHANGED <<series, s, smaVars, insightVars, appVars>>

NextDates ==
    \/ CleanSeries
    \/ TryDefault
    \/ TryDayfirst
    \/ TrySlashes
    \/ TryEpoch

(***************************************************************************)
(* compute_sma (utils.py 56-63).                                           *)
(*                                                                         *)
(* A table is a sequence of rows.  The field row is the row's index label  *)
(* in the caller's table: it tells the rows apart and plays no part in the *)
(* computation.                                                            *)
(***************************************************************************)
Stocks == <<"RELIANCE", "TCS">>

StockSet == {Stocks[i] : i \in DOMAIN Stocks}

\* The place of a stock symbol in string order.
StockRank(x) == CHOOSE i \in DOMAIN Stocks : Stocks[i] = x

Dates == 1..2

Closes == {0, 1, 3}

\* The (sma_short, sma_long) arguments: the defaults of line 56 and a pair
\* small enough for a window to be full.
WindowPairs == {<<50, 200>>, <<2, 3>>}

InputTables ==
    {[i \in DOMAIN q |-> [Stock |-> q[i][1], Date |-> q[i][2],
                          Close |-> q[i][3], row |-> i]] :
        q \in SeqsUpTo(StockSet \X Dates \X Closes, MaxRows)}

\* The sort key of line 59: ["Stock", "Date"].
KeyLess(a, b) ==
    \/ StockRank(a.Stock) < StockRank(b.Stock)
    \/ a.Stock = b.Stock /\ a.Date < b.Date

\* A variant of Insert below that puts a row before the rows of equal key.
RECURSIVE InsertBeforeEqual(_, _)
InsertBeforeEqual(r, q) ==
    IF q = << >> THEN <<r>>
    ELSE IF KeyLess(Head(q), r) THEN <<Head(q)>> \o InsertBeforeEqual(r, Tail(q))
         ELSE <<r>> \o q

\* r put into the sorted q after every row whose key is not greater.
RECURSIVE Insert(_, _)
Insert(r, q) ==
    IF q = << >> THEN <<r>>
    ELSE IF KeyLess(r, Head(q)) THEN <<r>> \o q
         ELSE <<Head(q)>> \o Insert(r, Tail(q))

\* df.sort_values(["Stock", "Date"]): a sort on several columns is a lexsort,
\* which keeps rows of equal key in their order.
RECURSIVE SortValues(_)
SortValues(t) ==
    IF t = << >> THEN << >>
    ELSE Insert(t[Len(t)], SortValues(SubSeq(t, 1, Len(t) - 1)))

\* The positions of the rows of t[i]'s group up to i, in table order.
RECURSIVE GroupUpTo(_, _, _)
GroupUpTo(t, stock, i) ==
    IF i = 0 THEN << >>
    ELSE IF t[i].Stock = stock THEN Append(GroupUpTo(t, stock, i - 1), i)
         ELSE GroupUpTo(t, stock, i - 1)

\* A variant of GroupOf below that takes the whole table for one group.
UngroupedOf(t, i) == [j \in 1..i |-> j]

\* df.groupby("Stock"): the positions of t[i]'s group up to and including i.
GroupOf(t, i) == GroupUpTo(t, t[i].Stock, i)

\* A variant of RollingMean below whose window never slides.
ExpandingMean(x, w) == Num(SumSeq(x), Len(x))

\* x.rolling(w, min_periods=1).mean() at the last element of x.
RollingMean(x, w) ==
    LET n == Len(x)
        lo == IF n - w + 1 > 1 THEN n - w + 1 ELSE 1
        win == SubSeq(x, lo, n)
    IN  Num(SumSeq(win), Len(win))

\* x.pct_change().fillna(0) * 100 at the last element of x: x[n] / x[n-1] - 1,
\* NaN for the first element and for 0/0, +inf for a positive value over 0.
PctChange(x) ==
    LET n == Len(x)
    IN  IF n = 1 THEN Num(0, 1)
        ELSE IF x[n - 1] = 0
             THEN (IF x[n] = 0 THEN Num(0, 1) ELSE Inf)
             ELSE Num((x[n] - x[n - 1]) * 100, x[n - 1])

\* The Close values of t[i]'s group up to and including row i.
CloseHistory(t, i) == LET g == GroupOf(t, i) IN [k \in DOMAIN g |-> t[g[k]].Close]

\* line 60 (and 61): the column of rolling means of window w.
SmaColumn(t, w) == [i \in DOMAIN t |-> RollingMean(CloseHistory(t, i), w)]

\* line 62
ReturnColumn(t) == [i \in DOMAIN t |-> PctChange(CloseHistory(t, i))]

WithSma50(t, w) ==
    [i \in DOMAIN t |->
        [Stock |-> t[i].Stock, Date |-> t[i].Date, Close |-> t[i].Close,
         row |-> t[i].row, SMA_50 |-> SmaColumn(t, w)[i]]]

WithSma200(t, w) ==
    [i \in DOMAIN t |->
        [Stock |-> t[i].Stock, Date |-> t[i].Date, Close |-> t[i].Close,
         row |-> t[i].row, SMA_50 |-> t[i].SMA_50, SMA_200 |-> SmaColumn(t, w)[i]]]

WithDailyReturn(t) ==
    [i \in DOMAIN t |->
        [Stock |-> t[i].Stock, Date |-> t[i].Date, Close |-> t[i].Close,
         row |-> t[i].row, SMA_50 |-> t[i].SMA_50, SMA_200 |-> t[i].SMA_200,
         Daily_Return |-> ReturnColumn(t)[i]]]

\* The whole of compute_sma as a function of its arguments.
compute_sma(t, w) == WithDailyReturn(WithSma200(WithSma50(SortValues(t), w[1]), w[2]))

InitSma ==
    /\ pc = "copy"
    /\ callerDf \in InputTables
    /\ windows \in WindowPairs
    /\ df = callerDf
    /\ aliased = TRUE
    /\ series = << >> /\ s = << >> /\ parsed = << >>
    /\ stock_df = [cols |-> {}, rows |-> << >>] /\ d = << >>
    /\ loc = NoLocals /\ outcome = Running
    /\ upload = None /\ adf = << >> /\ totals = NoTotals /\ goal = 0 /\ ui = BlankUi

\* line 58: df = df.copy()
CopyDf ==
    /\ pc = "copy"
    /\ df' = df
    /\ aliased' = FALSE
    /\ pc' = "sort"
    /\ UNCHANGED <<callerDf, windows, datesVars, insightVars, appVars>>

\* line 59: sort_values returns a new table; reset_index renumbers it
SortDf ==
    /\ pc = "sort"
    /\ df' = SortValues(df)
    /\ aliased' = FALSE
    /\ pc' = "sma50"
    /\ UNCHANGED <<callerDf, windows, datesVars, insightVars, appVars>>

\* line 60: a column assignment writes to the object df names
AddSma50 ==
    /\ pc = "sma50"
    /\ df' = WithSma50(df, windows[1])
    /\ callerDf' = IF aliased THEN df' ELSE callerDf
    /\ pc' = "sma200"
    /\ UNCHANGED <<aliased, windows, datesVars, insightVars, appVars>>

\* line 61
AddSma200 ==
    /\ pc = "sma200"
    /\ df' = WithSma200(df, windows[2])
    /\ callerDf' = IF aliased THEN df' ELSE callerDf
    /\ pc' = "return"
    /\ UNCHANGED <<aliased, windows, datesVars, insightVars, appVars>>

\* lines 62-63
AddDailyReturn ==
    /\ pc = "return"
    /\ df' = WithDailyReturn(df)
    /\ callerDf' = IF aliased THEN df' ELSE callerDf
    /\ pc' = "returned"
    /\ UNCHANGED <<aliased, windows, datesVars, insightVars, appVars>>

NextSma ==
    \/ CopyDf
    \/ SortDf
    \/ AddSma50
    \/ AddSma200
    \/ AddDailyReturn


(***************************************************************************)
(* compute_insights (utils.py 65-89).                                      *)
(*                                                                         *)
(* The argument is any table with Date and Close columns: cols says which  *)
(* of Daily_Return, SMA_50 and SMA_200 it has besides, and a row holds NaN *)
(* in a column the table does not have.                                    *)
(***************************************************************************)
ColumnSets == {{"Daily_Return", "SMA_50", "SMA_200"}, {"Daily_Return", "SMA_50"},
               {"Daily_Return", "SMA_200"}, {"Daily_Return"}, {}}

SmaValues == {NaN, Num(1, 1), Num(2, 1)}

StockRowsOf(cols) ==
    [Date : Dates, Close : {1, 2},
     Daily_Return : IF "Daily_Return" \in cols THEN {Num(0, 1)} ELSE {NaN},
     SMA_50 : IF "SMA_50" \in cols THEN SmaValues ELSE {NaN},
     SMA_200 : IF "SMA_200" \in cols THEN SmaValues ELSE {NaN}]

StockTables ==
    UNION {[cols : {c}, rows : SeqsUpTo(StockRowsOf(c), MaxStockRows)] : c \in ColumnSets}

\* The orders sort_values("Date") may leave the rows in: ascending by Date;
\* the default sort of a single column is not stable, so rows of equal Date
\* come in any order.
SortedByDate(rows) ==
    LET n == Len(rows)
        perms == {f \in [1..n -> 1..n] :
                     /\ \A i, j \in 1..n : i # j => f[i] # f[j]
                     /\ \A i, j \in 1..n : i < j => rows[f[i]].Date <= rows[f[j]].Date}
    IN  {[i \in 1..n |-> rows[f[i]]] : f \in perms}

MaxOf(S) == CHOOSE m \in S : \A x \in S : x <= m

MinOf(S) == CHOOSE m \in S : \A x \in S : m <= x

\* The sum of a sequence of rationals.
RECURSIVE SumFloats(_)
SumFloats(q) ==
    IF q = << >> THEN Num(0, 1)
    ELSE LET r == SumFloats(Tail(q))
             h == Head(q)
         IN  Num(h.num * r.den + r.num * h.den, h.den * r.den)

\* d["Daily_Return"].mean() of a non-empty column without NaN
MeanOf(q) == LET t == SumFloats(q) IN Num(t.num, t.den * Len(q))

\* .iloc[-1]
LastRow(rows) == rows[Len(rows)]

\* A variant of Signal below that tests >= first.
SignalGe(sma50, sma200) ==
    IF FloatGt(sma50, sma200) \/ sma50 = sma200 THEN "Golden Cross (Bullish)"
    ELSE IF FloatLt(sma50, sma200) THEN "Death Cross (Bearish)"
         ELSE "Neutral"

\* lines 75-80
Signal(sma50, sma200) ==
    IF FloatGt(sma50, sma200) THEN "Golden Cross (Bullish)"
    ELSE IF FloatLt(sma50, sma200) THEN "Death Cross (Bearish)"
         ELSE "Neutral"

Raised(e) == [kind |-> "error", error |-> e]

Returned(v) == [kind |-> "return", value |-> v]

InitInsights ==
    /\ pc = "sort_copy"
    /\ stock_df \in StockTables
    /\ d = << >>
    /\ loc = NoLocals
    /\ outcome = Running
    /\ series = << >> /\ s = << >> /\ parsed = << >>
    /\ callerDf = << >> /\ df = << >> /\ aliased = FALSE /\ windows = <<50, 200>>
    /\ upload = None /\ adf = << >> /\ totals = NoTotals /\ goal = 0 /\ ui = BlankUi

\* line 67
SortCopy ==
    /\ pc = "sort_copy"
    /\ d' \in SortedByDate(stock_df.rows)
    /\ pc' = "last"
    /\ UNCHANGED <<stock_df, loc, outcome, datesVars, smaVars, appVars>>

\* A variant of LastValues below that answers an empty table with zeros.
LastValuesOrZero ==
    /\ pc = "last"
    /\ IF d = << >>
       THEN /\ outcome' = Returned([last_close |-> 0, return_1d |-> Num(0, 1),
                                    high |-> 0, low |-> 0,
                                    avg_daily_return |-> Num(0, 1),
                                    sma_signal |-> "Neutral"])
            /\ pc' = "returned"
            /\ loc' = loc
       ELSE /\ loc' = [last_close |-> LastRow(d).Close,
                       last_return |-> IF "Daily_Return" \in stock_df.cols
                                       THEN LastRow(d).Daily_Return
                                       ELSE Num(0, 1)]
            /\ pc' = "stats"
            /\ outcome' = outcome
    /\ UNCHANGED <<stock_df, d, datesVars, smaVars, appVars>>

\* lines 68-69: iloc[-1] of an empty column raises IndexError
LastValues ==
    /\ pc = "last"
    /\ IF d = << >>
       THEN /\ outcome' = Raised("IndexError")
            /\ pc' = "raised"
            /\ loc' = loc
       ELSE /\ loc' = [last_close |-> LastRow(d).Close,
                       last_return |-> IF "Daily_Return" \in stock_df.cols
                                       THEN LastRow(d).Daily_Return
                                       ELSE Num(0, 1)]
            /\ pc' = "stats"
            /\ outcome' = outcome
    /\ UNCHANGED <<stock_df, d, datesVars, smaVars, appVars>>

\* lines 70-72: d["Daily_Return"] of a table without the column raises KeyError
Stats ==
    /\ pc = "stats"
    /\ IF "Daily_Return" \notin stock_df.cols
       THEN /\ outcome' = Raised("KeyError")
            /\ pc' = "raised"
            /\ loc' = loc
       ELSE /\ loc' = [last_close |-> loc.last_close,
                       last_return |-> loc.last_return,
                       high |-> MaxOf({d[i].Close : i \in DOMAIN d}),
                       low |-> MinOf({d[i].Close : i \in DOMAIN d}),
                       avg_daily_return |-> MeanOf([i \in DOMAIN d |-> d[i].Daily_Return])]
            /\ pc' = "signal"
            /\ outcome' = outcome
    /\ UNCHANGED <<stock_df, d, datesVars, smaVars, appVars>>

\* lines 73-80
ComputeSignal ==
    /\ pc = "signal"
    /\ LET last_sma50 == IF "SMA_50" \in stock_df.cols THEN LastRow(d).SMA_50 ELSE NaN
           last_sma200 == IF "SMA_200" \in stock_df.cols THEN LastRow(d).SMA_200 ELSE NaN
       IN  loc' = [last_close |-> loc.last_close,
                   last_return |-> loc.last_return,
                   high |-> loc.high,
                   low |-> loc.low,
                   avg_daily_return |-> loc.avg_daily_return,
                   last_sma50 |-> last_sma50,
                   last_sma200 |-> last_sma200,
                   signal |-> Signal(last_sma50, last_sma200)]
    /\ pc' = "summary"
    /\ UNCHANGED <<stock_df, d, outcome, datesVars, smaVars, appVars>>

\* lines 82-89
ReturnSummary ==
    /\ pc = "summary"
    /\ outcome' = Returned([last_close |-> loc.last_close,
                            return_1d |-> loc.last_return,
                            high |-> loc.high,
                            low |-> loc.low,
                            avg_daily_return |-> loc.avg_daily_return,
                            sma_signal |-> loc.signal])
    /\ pc' = "returned"
    /\ UNCHANGED <<stock_df, d, loc, datesVars, smaVars, appVars>>

NextInsights ==
    \/ SortCopy
    \/ LastValues
    \/ Stats
    \/ ComputeSignal
    \/ ReturnSummary

(***************************************************************************)
(* app.py: one run of the script, from the file uploader to the budget     *)
(* goal tracker.                                                           *)
(***************************************************************************)
Types == {"Income", "expense", "Transfer"}

\* .str.lower()
Lower(x) == IF x = "Income" THEN "income" ELSE IF x = "Transfer" THEN "transfer" ELSE x

\* A row of the file: whether to_datetime and to_numeric (errors="coerce")
\* yield a value for its Date and Amount, the amount, and the Type.
TxnRows == [date_ok : BOOLEAN, amount_ok : {TRUE}, Amount : {500, 1500}, Type : Types]
              \cup [date_ok : BOOLEAN, amount_ok : {FALSE}, Amount : {0}, Type : Types]

Uploads ==
    {None} \cup [file : {TRUE}, has_required_cols : BOOLEAN,
                 rows : SeqsUpTo(TxnRows, MaxTxns)]

\* number_input(min_value=1000, step=1000)
Goals == {1000, 2000}

RECURSIVE DropNa(_)
DropNa(rows) ==
    IF rows = << >> THEN << >>
    ELSE IF Head(rows).date_ok /\ Head(rows).amount_ok
         THEN <<Head(rows)>> \o DropNa(Tail(rows))
         ELSE DropNa(Tail(rows))

\* df[df['Type'].str.lower() == ty]['Amount'].sum()
RECURSIVE SumOfType(_, _)
SumOfType(rows, ty) ==
    IF rows = << >> THEN 0
    ELSE (IF Lower(Head(rows).Type) = ty THEN Head(rows).Amount ELSE 0)
         + SumOfType(Tail(rows), ty)

\* line 218
Progress(savings, g) == IF g > 0 THEN Num(savings * 100, g) ELSE Num(0, 1)

\* line 220: min(progress / 100, 1.0)
BarFraction(progress) ==
    LET f == Num(progress.num, progress.den * 100)
    IN  IF FloatLt(Num(1, 1), f) THEN Num(1, 1) ELSE f

\* st.progress accepts a float in [0.0, 1.0] and raises on any other
ProgressAccepts(f) == ~FloatLt(f, Num(0, 1)) /\ ~FloatGt(f, Num(1, 1))

InitApp ==
    /\ pc = "uploader"
    /\ upload \in Uploads
    /\ adf = << >>
    /\ totals = NoTotals
    /\ goal = 0
    /\ ui = BlankUi
    /\ series = << >> /\ s = << >> /\ parsed = << >>
    /\ callerDf = << >> /\ df = << >> /\ aliased = FALSE /\ windows = <<50, 200>>
    /\ stock_df = [cols |-> {}, rows |-> << >>] /\ d = << >>
    /\ loc = NoLocals /\ outcome = Running

\* lines 144, 225-226
NoUpload ==
    /\ pc = "uploader"
    /\ upload = None
    /\ ui' = [ui EXCEPT !.shown = "upload prompt"]
    /\ pc' = "end"
    /\ UNCHANGED <<upload, adf, totals, goal, datesVars, smaVars, insightVars>>

\* lines 144-151
ReadUpload ==
    /\ pc = "uploader"
    /\ upload # None
    /\ adf' = upload.rows
    /\ IF upload.has_required_cols
       THEN pc' = "clean_rows" /\ ui' = ui
       ELSE pc' = "stopped" /\ ui' = [ui EXCEPT !.shown = "missing columns"]
    /\ UNCHANGED <<upload, totals, goal, datesVars, smaVars, insightVars>>

\* lines 153-156
CleanRows ==
    /\ pc = "clean_rows"
    /\ adf' = DropNa(adf)
    /\ pc' = "summary_stats"
    /\ UNCHANGED <<upload, totals, goal, ui, datesVars, smaVars, insightVars>>

\* lines 160-209
SummaryStats ==
    /\ pc = "summary_stats"
    /\ LET total_income == SumOfType(adf, "income")
           total_expense == SumOfType(adf, "expense")
       IN  totals' = [total_income |-> total_income,
                      total_expense |-> total_expense,
                      savings |-> total_income - total_expense]
    /\ ui' = [ui EXCEPT !.shown = "dashboard"]
    /\ pc' = "goal_input"
    /\ UNCHANGED <<upload, adf, goal, datesVars, smaVars, insightVars>>

\* line 217
GoalInput ==
    /\ pc = "goal_input"
    /\ goal' \in Goals
    /\ pc' = "progress_bar"
    /\ UNCHANGED <<upload, adf, totals, ui, datesVars, smaVars, insightVars>>

\* lines 218-220
ProgressBar ==
    /\ pc = "progress_bar"
    /\ LET f == BarFraction(Progress(totals.savings, goal))
       IN  /\ ui' = [ui EXCEPT !.bar = f]
           /\ pc' = IF ProgressAccepts(f) THEN "goal_message" ELSE "raised"
    /\ UNCHANGED <<upload, adf, totals, goal, datesVars, smaVars, insightVars>>

\* lines 221-224
GoalMessage ==
    /\ pc = "goal_message"
    /\ ui' = [ui EXCEPT !.message = IF totals.savings >= goal THEN "achieved"
                                    ELSE "keep going"]
    /\ pc' = "end"
    /\ UNCHANGED <<upload, adf, totals, goal, datesVars, smaVars, insightVars>>

NextApp ==
    \/ NoUpload
    \/ ReadUpload
    \/ CleanRows
    \/ SummaryStats
    \/ GoalInput
    \/ ProgressBar
    \/ GoalMessage

(***************************************************************************)
(* The specifications: one function runs, the others' variables rest.      *)
(***************************************************************************)
SpecDates == InitDates /\ [][NextDates]_vars

SpecSma == InitSma /\ [][NextSma]_vars

SpecInsights == InitInsights /\ [][NextInsights]_vars

SpecApp == InitApp /\ [][NextApp]_vars



(***************************************************************************)
(* robust_parse_dates: the claims.                                         *)
(***************************************************************************)
CandidateA == ToDatetimeSeries(s, FALSE)

CandidateB == ToDatetimeSeries(s, TRUE)

CandidateC == ToDatetimeSeries([i \in DOMAIN s |-> ReplaceSlashes(s[i])], FALSE)

\* The candidate among A, B, C with the most parsed entries, the earliest of
\* them on a tie.
BestOfABC ==
    LET c == <<CandidateA, CandidateB, CandidateC>>
        k == CHOOSE i \in 1..3 :
                /\ \A j \in 1..3 : NotNaCount(c[j]) <= NotNaCount(c[i])
                /\ \A j \in 1..(i - 1) : NotNaCount(c[j]) < NotNaCount(c[i])
    IN  c[k]

ReachesSixtyPercent == NotNaCount(CandidateA) * 10 >= Len(series) * 6

\* What strategies A, B, C and D (in either unit) make of one raw value.
ParsesOf(v) ==
    {ToDatetime(Clean(v), FALSE), ToDatetime(Clean(v), TRUE),
     ToDatetime(ReplaceSlashes(Clean(v)), FALSE),
     EpochToDatetime(v, "ms"), EpochToDatetime(v, "s")} \ {NaT}

\* Strategy D's reading of the series: milliseconds when the greatest number
\* exceeds 1e12, seconds when it exceeds 1e9, nothing otherwise.
EpochCandidate ==
    LET nums == {NumVal(series[i]) : i \in {j \in DOMAIN series : IsNumeric(series[j])}}
    IN  [i \in DOMAIN series |->
            IF \E n \in nums : n > E12 THEN EpochToDatetime(series[i], "ms")
            ELSE IF \E n \in nums : n > E9 THEN EpochToDatetime(series[i], "s")
                 ELSE NaT]

DatesReturned == pc \in {"return29", "return54"}

\* C1 as stated: an entry of the returned series is null only if none of the
\* strategies A, B, C, D can parse the raw value at its position, and the
\* returned series is as long as the input.
C1_NullOnlyIfNoStrategyParses ==
    DatesReturned =>
        /\ Len(parsed) = Len(series)
        /\ \A i \in DOMAIN parsed : ~parsed[i].valid => ParsesOf(series[i]) = {}

\* C1 as amended: the returned series is as long as the input and in its
\* order (a non-null entry is a parse of the raw value at its position), and
\* an entry is null only if the one strategy whose whole-series result was
\* kept (A when A parses at least 60% of the entries, otherwise the
\* highest-count of A, B, C) cannot parse it and, when A was below 60%,
\* strategy D's reading of the series yields no timestamp for it.
C1_NullOnlyIfKeptStrategyFails ==
    DatesReturned =>
        /\ Len(parsed) = Len(series)
        /\ \A i \in DOMAIN parsed :
              /\ parsed[i].valid => parsed[i] \in ParsesOf(series[i])
              /\ ~parsed[i].valid =>
                    IF ReachesSixtyPercent
                    THEN ~CandidateA[i].valid
                    ELSE ~BestOfABC[i].valid /\ ~EpochCandidate[i].valid

\* C1: the function has returned past the epoch fill with a null entry beside
\* an epoch-filled one and a text-parsed one.
C1_Witness ==
    /\ pc = "return54"
    /\ \E i, j, k \in DOMAIN parsed :
          /\ ~parsed[i].valid
          /\ parsed[j].reading = "epoch_ms"
          /\ parsed[k].reading = "dmy"

InputRows == {callerDf[i] : i \in DOMAIN callerDf}

EntityRows(e) == {x \in InputRows : x.Stock = e}

NotAfter(x, y) == x.Date < y.Date \/ (x.Date = y.Date /\ x.row <= y.row)

PlaceInGroup(r) == Cardinality({x \in EntityRows(r.Stock) : NotAfter(x, r)})

\* The trailing min(k, w) rows of r's entity, r included.
Trailing(r, w) ==
    {x \in EntityRows(r.Stock) :
        /\ PlaceInGroup(x) <= PlaceInGroup(r)
        /\ PlaceInGroup(x) > PlaceInGroup(r) - w}

RECURSIVE SumOfCloses(_)
SumOfCloses(S) ==
    IF S = {} THEN 0
    ELSE LET x == CHOOSE y \in S : TRUE IN x.Close + SumOfCloses(S \ {x})

ArithmeticMean(S) == Num(SumOfCloses(S), Cardinality(S))

\* The entity's row just before r.
Previous(r) ==
    CHOOSE x \in EntityRows(r.Stock) : PlaceInGroup(x) = PlaceInGroup(r) - 1

\* (cur / prev - 1) * 100 in float arithmetic.
PercentChange(cur, prev) ==
    IF prev = 0 THEN (IF cur = 0 THEN NaN ELSE Inf)
    ELSE Num((cur - prev) * 100, prev)

RowsOfEntity(t, e) == LET IsOfEntity(r) == r.Stock = e IN SelectSeq(t, IsOfEntity)

\* C3: what compute_sma computes for the rows of an entity is what it computes
\* on the table of that entity's rows alone: two tables with the same rows
\* for the entity, whatever their other rows, give those rows the same short
\* average, long average and period return.
C3_NoCrossEntityLeakage ==
    pc = "returned" =>
        \A e \in StockSet :
            RowsOfEntity(df, e) = compute_sma(RowsOfEntity(callerDf, e), windows)

\* C3: a table whose rows of two entities interleave has been annotated.
C3_Witness ==
    /\ pc = "returned"
    /\ Len(callerDf) = 3
    /\ callerDf[1].Stock = callerDf[3].Stock
    /\ callerDf[2].Stock # callerDf[1].Stock
    /\ callerDf[1].Close # callerDf[2].Close
    /\ callerDf[2].Close # callerDf[3].Close

\* C6: each row's short (long) rolling average is the arithmetic mean of the
\* Close of the trailing min(k, window) rows of its own entity in timestamp
\* order, k its 1-based place; the first row's averages are its own value.
C6_RollingAverageIsTrailingMean ==
    pc = "returned" =>
        \A i \in DOMAIN df :
            /\ df[i].SMA_50 = ArithmeticMean(Trailing(df[i], windows[1]))
            /\ df[i].SMA_200 = ArithmeticMean(Trailing(df[i], windows[2]))
            /\ Cardinality(Trailing(df[i], windows[1])) =
                  (IF PlaceInGroup(df[i]) < windows[1] THEN PlaceInGroup(df[i])
                   ELSE windows[1])
            /\ PlaceInGroup(df[i]) = 1 =>
                  df[i].SMA_50 = Num(df[i].Close, 1) /\ df[i].SMA_200 = Num(df[i].Close, 1)

\* C6: an annotated row lies past a full short window whose mean differs from
\* the cumulative mean.
C6_Witness ==
    /\ pc = "returned"
    /\ \E i \in DOMAIN df :
          /\ PlaceInGroup(df[i]) > windows[1]
          /\ df[i].SMA_50 # df[i].SMA_200

\* C7 as stated: Daily_Return is exactly 0 for the first row of an entity and
\* (Close / previous Close of the same entity - 1) * 100 for every other row.
C7_DailyReturnIsPercentChange ==
    pc = "returned" =>
        \A i \in DOMAIN df :
            df[i].Daily_Return =
                IF PlaceInGroup(df[i]) = 1 THEN Num(0, 1)
                ELSE PercentChange(df[i].Close, Previous(df[i]).Close)

\* C7 short of the case 0/0: the statement holds of every row whose previous
\* Close is not 0 or whose own Close is not 0.
C7_ExceptZeroOverZero ==
    pc = "returned" =>
        \A i \in DOMAIN df :
            (PlaceInGroup(df[i]) > 1 /\ df[i].Close = 0 /\ Previous(df[i]).Close = 0)
            \/ df[i].Daily_Return =
                  (IF PlaceInGroup(df[i]) = 1 THEN Num(0, 1)
                   ELSE PercentChange(df[i].Close, Previous(df[i]).Close))

SameInputColumns(r, x) ==
    r.row = x.row /\ r.Stock = x.Stock /\ r.Date = x.Date /\ r.Close = x.Close

GroupedThenSorted(t) ==
    \A i, j \in DOMAIN t :
        i < j =>
            \/ StockRank(t[i].Stock) < StockRank(t[j].Stock)
            \/ /\ t[i].Stock = t[j].Stock
               /\ \/ t[i].Date < t[j].Date
                  \/ t[i].Date = t[j].Date /\ t[i].row < t[j].row

\* C9: the returned table holds each input row once, with its columns, by
\* entity id ascending, then timestamp ascending, rows of equal entity and
\* timestamp in input order; the caller's table never changes.
C9_StableSortedPermutation ==
    /\ [](pc = "returned" =>
            /\ Len(df) = Len(callerDf)
            /\ \A x \in InputRows :
                  Cardinality({i \in DOMAIN df : SameInputColumns(df[i], x)}) = 1
            /\ GroupedThenSorted(df))
    /\ [][callerDf' = callerDf]_vars

\* C9: a table with two rows of equal entity and timestamp after a row that
\* sorts behind them has been returned.
C9_Witness ==
    /\ pc = "returned"
    /\ Len(callerDf) = 3
    /\ KeyLess(callerDf[2], callerDf[1])
    /\ callerDf[2].Stock = callerDf[3].Stock
    /\ callerDf[2].Date = callerDf[3].Date
    /\ callerDf[2].Close # callerDf[3].Close
    /\ df # callerDf

(***************************************************************************)
(* compute_insights: the claims.                                           *)
(***************************************************************************)
\* The final row's SMA_50 or SMA_200 is undefined: the column is absent or
\* the value is missing.
UndefinedAverage ==
    \/ "SMA_50" \notin stock_df.cols
    \/ "SMA_200" \notin stock_df.cols
    \/ IsNaN(d[Len(d)].SMA_50)
    \/ IsNaN(d[Len(d)].SMA_200)

\* C4 as stated: when the final row's SMA_50 or SMA_200 is undefined, the call
\* fails and returns no summary.
C4_UndefinedAverageFails ==
    outcome.kind = "return" => ~UndefinedAverage

\* C5: on an empty table the call never gets past line 68 and returns no
\* summary; it ends in an error.
C5_EmptyInputFails ==
    stock_df.rows = << >> =>
        /\ outcome.kind # "return"
        /\ pc \in {"sort_copy", "last", "raised"}
        /\ pc = "raised" => outcome.kind = "error"

\* C5: the call on an empty table has ended in an error.
C5_Witness ==
    /\ stock_df.rows = << >>
    /\ pc = "raised"
    /\ outcome = Raised("IndexError")

\* C8: with both averages of the final row defined, the signal is Golden
\* Cross iff short > long, Death Cross iff short < long and Neutral iff they
\* are equal; the final row is a row of the latest timestamp.
C8_SignalFollowsAverages ==
    (outcome.kind = "return" /\ ~UndefinedAverage) =>
        LET last == d[Len(d)]
            short == last.SMA_50
            long == last.SMA_200
            sig == outcome.value.sma_signal
        IN  /\ \A i \in DOMAIN stock_df.rows : stock_df.rows[i].Date <= last.Date
            /\ \E i \in DOMAIN stock_df.rows : stock_df.rows[i] = last
            /\ sig = "Golden Cross (Bullish)" <=> short.num * long.den > long.num * short.den
            /\ sig = "Death Cross (Bearish)" <=> short.num * long.den < long.num * short.den
            /\ sig = "Neutral" <=> short.num * long.den = long.num * short.den

\* C8: a summary with a Neutral signal has been returned for a table whose
\* latest row is not its last and whose rows differ in their averages.
C8_Witness ==
    /\ outcome.kind = "return"
    /\ ~UndefinedAverage
    /\ outcome.value.sma_signal = "Neutral"
    /\ Len(stock_df.rows) = 2
    /\ stock_df.rows[1].Date > stock_df.rows[2].Date
    /\ stock_df.rows[2].SMA_50 = Num(1, 1)
    /\ stock_df.rows[2].SMA_200 = Num(2, 1)

(***************************************************************************)
(* app.py: the claim.                                                      *)
(***************************************************************************)
\* C10 as stated: the fraction handed to the progress bar lies in [0, 1], and
\* the goal-achieved message is shown exactly when savings >= goal.
C10_BarFractionInUnitInterval ==
    /\ ui.bar.kind = "num" => ui.bar.num >= 0 /\ ui.bar.num <= ui.bar.den
    /\ ui.message = "achieved" => totals.savings >= goal
    /\ (pc = "end" /\ upload.file /\ totals.savings >= goal) => ui.message = "achieved"

=============================================================================
